---- MODULE Spec2Model ----
(***************************************************************************)
(* PoolPy: the rules state machine of Table (src/poolpy/table.py) driven   *)
(* by the frame loop of src/app/main.py.                                   *)
(*                                                                         *)
(* Ball physics is abstracted: a ball's velocity is kept as membership of  *)
(* the set `moving` (speed above the 0.1 stop threshold), and the          *)
(* geometric tests is_colliding_with_ball and is_in_pocket are inputs of   *)
(* the frame, constrained by what the code makes possible: a ball changes  *)
(* position only inside its own iteration of update_balls (push-apart in  *)
(* is_colliding_with_ball, integration in Ball.update), and the racked     *)
(* balls and the respawned cue ball neither overlap nor lie in a pocket.   *)
(* The cue ball is the last ball of the list, so every other ball tests    *)
(* its overlap with the cue ball before the cue ball does: the cue ball's  *)
(* own iteration can be the first to find an overlap only with a ball that *)
(* has moved in its iteration of this frame or whose iteration was passed  *)
(* over (variable `skipped`).                                              *)
(* One iteration of update_balls resolves the overlap of its ball with at *)
(* most one other ball (a ball overlapping several balls meets them in     *)
(* successive frames), and is_in_pocket reports the pockets of             *)
(* PocketInputs; a capture list is kept as the bag of its balls, the order *)
(* of a list being read by the drawing code only.                          *)
(***************************************************************************)
EXTENDS Integers, Sequences, FiniteSets, Bags, TLC

\* ---------------------------------------------------------------- bounds
\* Number of entries of BALL_COLOURS that are modelled (7 in globals.py):
\* the rack holds NumColours Solid, NumColours Stripe and the Black ball.
NumColours == 1

\* ApiSpec: reset_cue_ball() is called while fewer than MaxCueBalls cue balls
\* are on the table, shoot() at most MaxShots times
MaxCueBalls == 3
MaxShots == 5

\* WallSpec: the components of a velocity are the integers of
\* -MaxSpeed..MaxSpeed.  BallSpec: the components of a velocity are those of
\* -MaxBallSpeed..MaxBallSpeed, the components of a position those of
\* -MaxOffset..MaxOffset
MaxSpeed == 2
MaxOffset == 1
MaxBallSpeed == 1

\* ------------------------------------------------------------- constants
None == "None"

\* Table.__init__: cue_ball = None and winner = None, kept as numbers that
\* are no ball id and no player
NoBall == -1
NoWinner == 0

\* Table.rack_order
rack_order ==
  << "Solid", "Stripe", "Stripe", "Solid", "Black",
     "Stripe", "Stripe", "Solid", "Solid", "Stripe",
     "Stripe", "Solid", "Stripe", "Solid", "Solid" >>

\* ball_id of the cue ball (reset_cue_ball)
CueId == 0

\* head position of the cue ball (reset_cue_ball: 150 + 150, 100 + 400)
HeadX == 300
HeadY == 500
Elsewhere == << >>

\* BLACK_BALL and BALL_WHITE are not members of BALL_COLOURS
BLACK_BALL == 0
BALL_WHITE == 8
BALL_COLOURS == [i \in 1..NumColours |-> i]

pocket_names ==
  << "top_left", "top_right", "center_left",
     "center_right", "bottom_left", "bottom_right" >>
PocketNames == { pocket_names[i] : i \in 1..Len(pocket_names) }

\* the pockets is_in_pocket reports in the model
PocketInputs == { "top_left" }

\* number of balls of the same type among the first i positions of the rack
RankInRack(i) == Cardinality({ j \in 1..i : rack_order[j] = rack_order[i] })

\* ball_ids of the object balls that are racked
RackIds ==
  { i \in 1..Len(rack_order) :
      rack_order[i] = "Black" \/ RankInRack(i) <= NumColours }

ball_type(b) == IF b = CueId THEN "Cue" ELSE rack_order[b]

\* colour handed out by rack(): the shuffled colour lists are popped once
\* per ball of a type, so the balls of one type carry distinct colours
colour(b) ==
  IF b = CueId THEN BALL_WHITE
  ELSE IF rack_order[b] = "Black" THEN BLACK_BALL
  ELSE RankInRack(b)

VARIABLES
  balls,                        \* Table.balls: sequence of ball ids in play
  cue_ball,                     \* Table.cue_ball: NoBall or the cue ball's id
  cue_pos,                      \* <<x, y>> of the cue ball while at the head position, else Elsewhere
  moving,                       \* balls whose velocity.length() > 0.1
  disturbed,                    \* some object ball has left the position it was racked at
  cue_rolled,                   \* the cue ball changed position in its last iteration of update_balls
  is_aiming,
  pockets,
  current_player,
  shots_left,
  player1_balls,
  player2_balls,
  player1_ball_type,
  player2_ball_type,
  is_turn_in_play,
  was_white_ball_pocketed,
  has_ball_been_hit_this_turn,
  was_wrong_ball_hit,
  was_wrong_ball_pocketed,
  was_black_ball_pocketed,
  is_game_over,
  winner,
  pc,                           \* position in the frame loop of main.py
  idx,                          \* position of `for ball in self.balls` in update_balls
  skipped,                      \* balls the loop of update_balls passed over in this frame
  exception,                    \* exception that ended the program, or None
  settled,                      \* history: what the settlement of the previous step started from
  evaluations,                  \* history: settlements evaluated since the last shoot()
  first_hit,                    \* history: type of the ball of the first contact recorded in the first turn
  phase,                        \* history: "fresh", "first" (first shot not yet settled) or "later"
  calc                          \* the Ball whose method is being computed, with its arguments

physics == << balls, cue_ball, cue_pos, moving, disturbed, cue_rolled >>
flags == << was_white_ball_pocketed, has_ball_been_hit_this_turn,
            was_wrong_ball_hit, was_wrong_ball_pocketed,
            was_black_ball_pocketed >>
players == << player1_balls, player2_balls,
              player1_ball_type, player2_ball_type >>
turn == << current_player, shots_left, is_turn_in_play, is_game_over, winner >>
history == << settled, evaluations, first_hit, phase >>
table == << physics, flags, players, turn, is_aiming, pockets,
            pc, idx, skipped, exception, history >>
vars == << table, calc >>

\* ------------------------------------------------------------ helpers
SeqOfSet(S) ==
  SelectSeq([i \in 1..Len(rack_order) |-> i], LAMBDA i : i \in S)

InPlay == { balls[i] : i \in 1..Len(balls) }

Remove(s, x) == SelectSeq(s, LAMBDA y : y # x)

Contains(s, x) == \E i \in 1..Len(s) : s[i] = x

NoSettlement == [kind |-> "none"]

\* no Ball method is being computed
Idle == [op |-> "idle"]

\* the number of cue balls among the balls in play
CueBalls == Cardinality({ i \in 1..Len(balls) : ball_type(balls[i]) = "Cue" })

\* ------------------------------------------------- Table construction
\* Table.rack: the balls list after racking onto a table whose cue_ball is cue
rack(cue) ==
  (IF cue # NoBall THEN << cue >> ELSE << >>) \o SeqOfSet(RackIds)

\* Table.__init__: the pocket capture lists
EmptyPockets == [p \in PocketNames |-> EmptyBag]

\* main.py: table = Table(); table.rack(); table.reset_cue_ball()
NewTable ==
  /\ balls = rack(NoBall) \o << CueId >>
  /\ cue_ball = CueId
  /\ cue_pos = << HeadX, HeadY >>
  /\ moving = {}
  /\ disturbed = FALSE
  /\ cue_rolled = FALSE
  /\ is_aiming = FALSE
  /\ pockets = EmptyPockets
  /\ current_player = 1
  /\ shots_left = 1
  /\ player1_balls = BALL_COLOURS
  /\ player2_balls = BALL_COLOURS
  /\ player1_ball_type = None
  /\ player2_ball_type = None
  /\ is_turn_in_play = FALSE
  /\ was_white_ball_pocketed = FALSE
  /\ has_ball_been_hit_this_turn = FALSE
  /\ was_wrong_ball_hit = FALSE
  /\ was_wrong_ball_pocketed = FALSE
  /\ was_black_ball_pocketed = FALSE
  /\ is_game_over = FALSE
  /\ winner = NoWinner
  /\ exception = None
  /\ settled = NoSettlement
  /\ evaluations = 0
  /\ first_hit = None
  /\ phase = "fresh"

Init ==
  /\ NewTable
  /\ pc = "input"
  /\ idx = 1
  /\ skipped = {}
  /\ calc = Idle

At(p) == pc = p /\ exception = None

\* main.py, KEYDOWN K_r: a new Table replaces the old one
Restart ==
  /\ At("input")
  /\ balls' = rack(NoBall) \o << CueId >>
  /\ cue_ball' = CueId
  /\ cue_pos' = << HeadX, HeadY >>
  /\ moving' = {}
  /\ disturbed' = FALSE
  /\ cue_rolled' = FALSE
  /\ is_aiming' = FALSE
  /\ pockets' = EmptyPockets
  /\ current_player' = 1
  /\ shots_left' = 1
  /\ player1_balls' = BALL_COLOURS
  /\ player2_balls' = BALL_COLOURS
  /\ player1_ball_type' = None
  /\ player2_ball_type' = None
  /\ is_turn_in_play' = FALSE
  /\ was_white_ball_pocketed' = FALSE
  /\ has_ball_been_hit_this_turn' = FALSE
  /\ was_wrong_ball_hit' = FALSE
  /\ was_wrong_ball_pocketed' = FALSE
  /\ was_black_ball_pocketed' = FALSE
  /\ is_game_over' = FALSE
  /\ winner' = NoWinner
  /\ exception' = None
  /\ settled' = NoSettlement
  /\ evaluations' = 0
  /\ first_hit' = None
  /\ phase' = "fresh"
  /\ pc' = "input"
  /\ idx' = 1
  /\ skipped' = {}
  /\ calc' = calc

\* ------------------------------------------------------------- aiming
\* Table.are_balls_moving
are_balls_moving == \E b \in InPlay : b \in moving

\* Table.shoot(power); strong: power > 0.1, so that the cue ball's speed
\* exceeds the stop threshold
shoot(strong) ==
  /\ moving' = IF cue_ball # NoBall /\ cue_ball \in InPlay
               THEN (IF strong THEN moving \cup {cue_ball}
                               ELSE moving \ {cue_ball})
               ELSE moving
  /\ is_turn_in_play' = TRUE
  /\ shots_left' = shots_left - 1
  /\ phase' = IF phase = "fresh" THEN "first" ELSE phase
  /\ evaluations' = 0
  /\ UNCHANGED << balls, cue_ball, cue_pos, disturbed, cue_rolled >>

\* Table.handle_input, called by main.py when the game is not over.
\* pressed: pygame.mouse.get_pressed()[0]; over: is_mouse_over_cue_ball;
\* strong: get_power() > 0.1
handle_input(pressed, over, strong) ==
  /\ At("input")
  /\ ~is_game_over
  /\ pc' = "rules"
  /\ settled' = NoSettlement
  /\ UNCHANGED << flags, players, current_player, is_game_over, winner,
                  pockets, idx, skipped, exception, first_hit, calc >>
  /\ IF pressed
     THEN /\ is_aiming' = (is_aiming \/ (~is_turn_in_play /\ over /\ cue_ball # NoBall))
          /\ UNCHANGED << physics, is_turn_in_play, shots_left, phase, evaluations >>
     ELSE IF is_aiming
     THEN /\ is_aiming' = FALSE
          /\ shoot(strong /\ cue_ball # NoBall)
     ELSE /\ UNCHANGED << physics, is_turn_in_play, shots_left, phase,
                          evaluations, is_aiming >>

\* main.py: `if not table.is_game_over` skips input and rules
SkipWhenOver ==
  /\ At("input")
  /\ is_game_over
  /\ pc' = "update"
  /\ idx' = 1
  /\ settled' = NoSettlement
  /\ UNCHANGED << physics, flags, players, turn, is_aiming, pockets,
                  skipped, exception, first_hit, phase, evaluations, calc >>

\* -------------------------------------------------------------- rules
\* Table.change_player
change_player(p) == IF p = 2 THEN 1 ELSE 2

RemainingOf(p) == IF p = 1 THEN player1_balls ELSE player2_balls

\* mutant of GrantedShots: two shots whatever the player has left
GrantedShots_AlwaysTwo(p) == 2

\* process_game_rules: the shots granted to player p after a pocketed cue
\* ball or a foul
GrantedShots(p) == IF Len(RemainingOf(p)) = 0 THEN 1 ELSE 2

\* mutant of BlackBallWinner: the pocketed cue ball is not looked at
BlackBallWinner_IgnoresCue ==
  IF Len(RemainingOf(current_player)) = 0
  THEN current_player
  ELSE change_player(current_player)

\* process_game_rules: the winner passed to game_over when the black ball
\* was pocketed
BlackBallWinner ==
  IF was_white_ball_pocketed
  THEN change_player(current_player)
  ELSE IF Len(RemainingOf(current_player)) = 0
       THEN current_player
       ELSE change_player(current_player)

\* process_game_rules: the condition of the second branch of the chain
IsFoul ==
  \/ ~has_ball_been_hit_this_turn
  \/ was_wrong_ball_hit
  \/ was_wrong_ball_pocketed

\* mutant of SettleBranch: the player with one shot left loses the turn
SettleBranch_OffByOne ==
  IF was_white_ball_pocketed THEN "white"
  ELSE IF IsFoul THEN "foul"
  ELSE IF shots_left <= 1 THEN "no_shots"
  ELSE "continue"

\* process_game_rules: which branch of the if/elif chain that follows the
\* black-ball block is taken
SettleBranch ==
  IF was_white_ball_pocketed THEN "white"
  ELSE IF IsFoul THEN "foul"
  ELSE IF shots_left = 0 THEN "no_shots"
  ELSE "continue"

\* mutant of SettlesNow: the turn is evaluated while balls still move
SettlesNow_IgnoresMotion == is_turn_in_play

\* process_game_rules: whether the turn is evaluated in this call
SettlesNow == is_turn_in_play /\ ~are_balls_moving

\* mutant of reset_rules: the black-ball flag survives the settlement
reset_rules_KeepsBlack ==
  /\ has_ball_been_hit_this_turn' = FALSE
  /\ was_white_ball_pocketed' = FALSE
  /\ was_black_ball_pocketed' = was_black_ball_pocketed
  /\ was_wrong_ball_hit' = FALSE
  /\ was_wrong_ball_pocketed' = FALSE

\* Table.reset_rules
reset_rules ==
  /\ has_ball_been_hit_this_turn' = FALSE
  /\ was_white_ball_pocketed' = FALSE
  /\ was_black_ball_pocketed' = FALSE
  /\ was_wrong_ball_hit' = FALSE
  /\ was_wrong_ball_pocketed' = FALSE

\* mutant of reset_cue_ball: the new cue ball is put on the centre spot
reset_cue_ball_CentreSpot ==
  /\ cue_ball' = CueId
  /\ balls' = Append(balls, CueId)
  /\ cue_pos' = << HeadX, 350 >>
  /\ cue_rolled' = FALSE

\* Table.reset_cue_ball: a new cue ball at the head position joins the balls
reset_cue_ball ==
  /\ cue_ball' = CueId
  /\ balls' = Append(balls, CueId)
  /\ cue_pos' = << HeadX, HeadY >>
  /\ cue_rolled' = FALSE

\* what a settlement started from
SettlementRecord ==
  [ kind |-> "settled",
    player |-> current_player,
    shots |-> shots_left,
    balls |-> balls,
    black |-> was_black_ball_pocketed,
    white |-> was_white_ball_pocketed,
    hit |-> has_ball_been_hit_this_turn,
    wrong_hit |-> was_wrong_ball_hit,
    wrong_pocketed |-> was_wrong_ball_pocketed,
    remaining |-> << Len(player1_balls), Len(player2_balls) >>,
    first_hit |-> first_hit,
    phase |-> phase,
    in_play |-> is_turn_in_play,
    moving |-> are_balls_moving ]

\* Table.process_game_rules, called by main.py when the game is not over
process_game_rules ==
  /\ At("rules")
  /\ pc' = "update"
  /\ idx' = 1
  /\ UNCHANGED << players, pockets, is_aiming, exception, moving, disturbed,
                  skipped, calc >>
  /\ IF SettlesNow
     THEN /\ is_turn_in_play' = FALSE
          /\ IF was_black_ball_pocketed
             THEN is_game_over' = TRUE /\ winner' = BlackBallWinner
             ELSE UNCHANGED << is_game_over, winner >>
          /\ CASE SettleBranch = "white" ->
                    /\ reset_cue_ball
                    /\ current_player' = change_player(current_player)
                    /\ shots_left' = GrantedShots(change_player(current_player))
               [] SettleBranch = "foul" ->
                    /\ current_player' = change_player(current_player)
                    /\ shots_left' = GrantedShots(change_player(current_player))
                    /\ UNCHANGED << balls, cue_ball, cue_pos, cue_rolled >>
               [] SettleBranch = "no_shots" ->
                    /\ current_player' = change_player(current_player)
                    /\ shots_left' = 1
                    /\ UNCHANGED << balls, cue_ball, cue_pos, cue_rolled >>
               [] OTHER ->
                    UNCHANGED << current_player, shots_left, balls, cue_ball, cue_pos,
                                 cue_rolled >>
          /\ reset_rules
          /\ first_hit' = None
          /\ settled' = SettlementRecord
          /\ evaluations' = evaluations + 1
          /\ phase' = "later"
     ELSE /\ UNCHANGED << turn, flags, balls, cue_ball, cue_pos, cue_rolled, first_hit,
                          phase, evaluations >>
          /\ settled' = NoSettlement

\* ------------------------------------------------------------ physics
\* Ball.apply_ball_collision on ball b and other ball o: the two velocities
\* are recombined, so two balls at rest stay at rest and otherwise either
\* ball may end above or below the stop threshold
PairOutcomes(M, b, o) ==
  IF b \notin M /\ o \notin M
  THEN { M }
  ELSE { (M \ {b, o}) \cup S : S \in SUBSET {b, o} }

\* update_balls: the balls the inner loop pairs with ball b
OtherBalls(b) == SelectSeq(balls, LAMBDA o : o # b)

TypesAssigned == ~(player1_ball_type = None \/ player2_ball_type = None)

\* mutant of WrongBallHit: the remaining balls of the player are not looked at
WrongBallHit_NoRemainingGuard(b) ==
  /\ TypesAssigned
  /\ \/ /\ current_player = 1
        /\ ball_type(b) # player1_ball_type
     \/ /\ current_player = 2
        /\ ball_type(b) # player2_ball_type

\* check_collision: whether the first recorded contact, with ball b, is a
\* wrong-ball hit
WrongBallHit(b) ==
  /\ TypesAssigned
  /\ \/ /\ current_player = 1
        /\ Len(player1_balls) # 0
        /\ ball_type(b) # player1_ball_type
     \/ /\ current_player = 2
        /\ Len(player2_balls) # 0
        /\ ball_type(b) # player2_ball_type

\* check_collision: whether a collision of ball b detected against other
\* ball o is recorded as the cue ball's contact
RecordsContact(b, o) == o = cue_ball

OppositeType(t) == IF t = "Stripe" THEN "Solid" ELSE "Stripe"

\* mutant of TypesAfterPocket: the types follow every pocketed ball
TypesAfterPocket_Reassigns(b) ==
  IF current_player = 1
  THEN << ball_type(b), OppositeType(ball_type(b)) >>
  ELSE << OppositeType(ball_type(b)), ball_type(b) >>

\* check_pockets: << player1_ball_type, player2_ball_type >> after object
\* ball b was pocketed
TypesAfterPocket(b) ==
  IF current_player = 1
  THEN IF player1_ball_type = None
       THEN << ball_type(b), OppositeType(ball_type(b)) >>
       ELSE << player1_ball_type, player2_ball_type >>
  ELSE IF player2_ball_type = None
       THEN << OppositeType(ball_type(b)), ball_type(b) >>
       ELSE << player1_ball_type, player2_ball_type >>

\* check_pockets: whether pocketing object ball b sets was_wrong_ball_pocketed
WrongBallPocketed(b) ==
  IF current_player = 1
  THEN player1_ball_type # None /\ ball_type(b) # player1_ball_type
  ELSE player2_ball_type # None /\ ball_type(b) # player2_ball_type

\* mutant of ShotsBonus: a pocketed ball earns no extra shot
ShotsBonus_None(b) == 0

\* check_pockets: the change of shots_left when a ball drops into a pocket
ShotsBonus(b) == 1

\* ------------------------------------------------------- update_balls
\* update_balls: whether the cue ball's iteration can find an overlap with
\* ball o.  Ball o tests the pair first (the cue ball is the last of the
\* list) and records the contact, unless o came to overlap the cue ball by
\* its own Ball.update of this frame or o's iteration was passed over.
CueBallFindsOverlap(o) ==
  \/ has_ball_been_hit_this_turn
  \/ o \in moving
  \/ o \in skipped /\ cue_rolled

\* whether ball x has left the position it was created at: two balls overlap
\* only after one of them has (the rack and the head position are apart)
HasMoved(x) == IF x = cue_ball THEN cue_pos = Elsewhere ELSE disturbed

\* update_balls: the ball that `for ball in self.balls` passes over after the
\* ball at the loop position was removed from the list
PassedOver == IF idx + 1 <= Len(balls) THEN { balls[idx + 1] } ELSE {}

\* mutant of list_append: the ball is not added to the list
list_append_Dropped(list, b) == list

\* list.append(ball) on a pocket's capture list
list_append(list, b) == list (+) SetToBag({b})

\* list.remove(colour) on a player's remaining colours: the list afterwards,
\* or the ValueError it raises when the colour is not in the list
ListRemove(s, c) ==
  IF Contains(s, c)
  THEN [list |-> Remove(s, c), raised |-> None]
  ELSE [list |-> s, raised |-> "ValueError"]

\* Table.check_pockets(ball) for a ball b that is_in_pocket reports in pocket
\* (M: the balls still moving after Ball.update)
check_pockets(b, pocket, M) ==
  /\ shots_left' = shots_left + ShotsBonus(b)
  /\ balls' = Remove(balls, b)
  /\ moving' = M \ {b}
  /\ IF b = cue_ball
     THEN /\ was_white_ball_pocketed' = TRUE
          /\ UNCHANGED << was_black_ball_pocketed, was_wrong_ball_pocketed,
                          pockets, players, exception >>
     ELSE LET types == TypesAfterPocket(b)
              r1 == ListRemove(player1_balls, colour(b))
              r2 == ListRemove(player2_balls, colour(b))
          IN /\ was_black_ball_pocketed' =
                  (was_black_ball_pocketed \/ ball_type(b) = "Black")
             /\ pockets' = [pockets EXCEPT ![pocket] = list_append(@, b)]
             /\ player1_ball_type' = types[1]
             /\ player2_ball_type' = types[2]
             /\ was_wrong_ball_pocketed' =
                  (was_wrong_ball_pocketed \/ WrongBallPocketed(b))
             /\ UNCHANGED was_white_ball_pocketed
             /\ IF ball_type(b) = types[1]
                THEN /\ player1_balls' = r1.list
                     /\ exception' = r1.raised
                     /\ UNCHANGED player2_balls
                ELSE IF ball_type(b) = types[2]
                THEN /\ player2_balls' = r2.list
                     /\ exception' = r2.raised
                     /\ UNCHANGED player1_balls
                ELSE UNCHANGED << player1_balls, player2_balls, exception >>

\* Table.update_balls: one iteration of `for ball in self.balls`, for the
\* ball at the loop position.  o: the other ball is_colliding_with_ball
\* reports, or NoBall; stop: friction took the ball below the stop
\* threshold; pocket: the result of is_in_pocket.
update_ball(o, stop, pocket) ==
  /\ At("update")
  /\ idx <= Len(balls)
  /\ LET b == balls[idx]
         recorded == o # NoBall /\ RecordsContact(b, o)
         first == recorded /\ ~has_ball_been_hit_this_turn
     IN /\ o # NoBall => Contains(OtherBalls(b), o) /\ (HasMoved(b) \/ HasMoved(o))
        /\ (o # NoBall /\ b = cue_ball) => CueBallFindsOverlap(o)
        /\ skipped' = IF pocket # None THEN skipped \cup PassedOver ELSE skipped
        /\ \E M1 \in (IF o = NoBall THEN { moving } ELSE PairOutcomes(moving, b, o)) :
             LET M2 == IF stop THEN M1 \ {b} ELSE M1
                 moved == b \in M2 \/ o # NoBall
             IN /\ stop => (o = NoBall /\ b \in M1)
                /\ pocket # None => moved
                /\ cue_pos' = IF b = cue_ball /\ moved THEN Elsewhere ELSE cue_pos
                /\ disturbed' = (disturbed \/ (b # cue_ball /\ moved))
                /\ cue_rolled' = IF b = cue_ball THEN moved /\ pocket = None ELSE cue_rolled
                /\ IF pocket # None
                   THEN check_pockets(b, pocket, M2)
                   ELSE /\ moving' = M2
                        /\ UNCHANGED << balls, shots_left, was_white_ball_pocketed,
                                        was_black_ball_pocketed,
                                        was_wrong_ball_pocketed, pockets,
                                        players, exception >>
        /\ has_ball_been_hit_this_turn' = (has_ball_been_hit_this_turn \/ recorded)
        /\ was_wrong_ball_hit' = (was_wrong_ball_hit \/ (first /\ WrongBallHit(b)))
        /\ first_hit' = IF first /\ phase = "first" THEN ball_type(b) ELSE first_hit
  /\ idx' = idx + 1
  /\ settled' = NoSettlement
  /\ UNCHANGED << cue_ball, current_player, is_turn_in_play,
                  is_game_over, winner, is_aiming, pc, phase, evaluations, calc >>

UpdateBall ==
  \E o \in InPlay \cup {NoBall}, stop \in BOOLEAN,
     pocket \in PocketInputs \cup {None} :
    update_ball(o, stop, pocket)

\* main.py: the loop of update_balls is exhausted; draw, clock.tick
EndFrame ==
  /\ At("update")
  /\ idx > Len(balls)
  /\ pc' = "input"
  /\ idx' = 1
  /\ skipped' = {}
  /\ settled' = NoSettlement
  /\ UNCHANGED << physics, flags, players, turn, is_aiming, pockets,
                  exception, first_hit, phase, evaluations, calc >>

HandleInput ==
  \E pressed \in BOOLEAN, over \in BOOLEAN, strong \in BOOLEAN :
    handle_input(pressed, over, strong)

Next ==
  \/ Restart
  \/ HandleInput
  \/ SkipWhenOver
  \/ process_game_rules
  \/ UpdateBall
  \/ EndFrame

Spec == Init /\ [][Next]_vars

\* ------------------------------------------------------------ liveness
\* main.py: `while True` runs frame after frame (KEYDOWN K_r is up to the
\* user)
LoopStep ==
  \/ HandleInput
  \/ SkipWhenOver
  \/ process_game_rules
  \/ UpdateBall
  \/ EndFrame

\* Ball.update: apply_friction multiplies every speed by
\* TABLE_FRICTION_FACTOR < 1 in every frame, apply_ball_collision and
\* apply_wall_collision add no speed, and a speed of at most 0.1 is set to 0:
\* while the program runs, the balls in play are at rest again and again
FrictionWins == []<>(~are_balls_moving \/ exception # None)

LiveSpec ==
  /\ Spec
  /\ WF_vars(LoopStep)
  /\ FrictionWins

\* ------------------------------------------------- the Table's own API
\* A caller that drives a Table through its public methods in any order
\* (main.py calls them in one fixed order only).

\* Table.__init__: the table before rack() and reset_cue_ball()
Table_init ==
  /\ balls = << >>
  /\ cue_ball = NoBall
  /\ cue_pos = Elsewhere
  /\ moving = {}
  /\ disturbed = FALSE
  /\ cue_rolled = FALSE
  /\ is_aiming = FALSE
  /\ pockets = EmptyPockets
  /\ current_player = 1
  /\ shots_left = 1
  /\ player1_balls = BALL_COLOURS
  /\ player2_balls = BALL_COLOURS
  /\ player1_ball_type = None
  /\ player2_ball_type = None
  /\ is_turn_in_play = FALSE
  /\ was_white_ball_pocketed = FALSE
  /\ has_ball_been_hit_this_turn = FALSE
  /\ was_wrong_ball_hit = FALSE
  /\ was_wrong_ball_pocketed = FALSE
  /\ was_black_ball_pocketed = FALSE
  /\ is_game_over = FALSE
  /\ winner = NoWinner
  /\ exception = None
  /\ settled = NoSettlement
  /\ evaluations = 0
  /\ first_hit = None
  /\ phase = "fresh"

ApiInit ==
  /\ Table_init
  /\ pc = "input"
  /\ idx = 1
  /\ skipped = {}
  /\ calc = Idle

\* what the caller's methods below leave alone
ApiFrame ==
  UNCHANGED << flags, players, current_player, is_game_over, winner, is_aiming,
               disturbed, pc, idx, skipped, exception, settled, first_hit, calc >>

\* table.rack(): the list is cleared, the capture lists are cleared, the
\* cue ball the table refers to is kept and the object balls are created
ApiRack ==
  /\ At("input")
  /\ balls' = rack(cue_ball)
  /\ pockets' = EmptyPockets
  /\ moving' = moving \cap {cue_ball}
  /\ ApiFrame
  /\ UNCHANGED << cue_ball, cue_pos, cue_rolled, shots_left, is_turn_in_play,
                  phase, evaluations >>

\* table.reset_cue_ball(): the new Ball is at rest
ApiResetCueBall ==
  /\ At("input")
  /\ CueBalls < MaxCueBalls
  /\ reset_cue_ball
  /\ moving' = moving \ {CueId}
  /\ ApiFrame
  /\ UNCHANGED << pockets, shots_left, is_turn_in_play, phase, evaluations >>

\* table.shoot(power)
ApiShoot(strong) ==
  /\ At("input")
  /\ shots_left > 1 - MaxShots
  /\ shoot(strong /\ cue_ball # NoBall)
  /\ ApiFrame
  /\ UNCHANGED << pockets, cue_rolled >>

ApiNext ==
  \/ ApiRack
  \/ ApiResetCueBall
  \/ \E strong \in BOOLEAN : ApiShoot(strong)

ApiSpec == ApiInit /\ [][ApiNext]_vars

\* ------------------------------------------------------ Ball arithmetic
\* A Python float is modelled as the rational << numerator, denominator >>
\* in lowest terms with a positive denominator: the arithmetic is exact,
\* rounding is not modelled.
RECURSIVE GCD(_, _)
GCD(m, n) == IF n = 0 THEN m ELSE GCD(n, m % n)
Abs(n) == IF n < 0 THEN 0 - n ELSE n

\* F applied to the value of v, v being evaluated once
Once(v, F(_)) == CHOOSE r \in { F(x) : x \in {v} } : TRUE

Norm(a) ==
  Once(GCD(Abs(a[1]), a[2]),
       LAMBDA g : IF g = 0 THEN a ELSE << a[1] \div g, a[2] \div g >>)
Rat(n) == << n, 1 >>

\* the numerators of a and b over their least common denominator
Over(a, b) ==
  Once(GCD(a[2], b[2]),
       LAMBDA g : << a[1] * (b[2] \div g), b[1] * (a[2] \div g), (a[2] \div g) * b[2] >>)
Both(a, b, F(_)) == Once(<< a, b >>, LAMBDA p : Once(Over(p[1], p[2]), F))
RatAdd(a, b) == Both(a, b, LAMBDA o : Norm(<< o[1] + o[2], o[3] >>))
RatSub(a, b) == Both(a, b, LAMBDA o : Norm(<< o[1] - o[2], o[3] >>))
MulN(a, b, g, h) ==
  IF g = 0 \/ h = 0 THEN << a[1] * b[1], a[2] * b[2] >>
  ELSE << (a[1] \div g) * (b[1] \div h), (a[2] \div h) * (b[2] \div g) >>
RatMul(a, b) ==
  Once(<< a, b >>,
       LAMBDA p : MulN(p[1], p[2], GCD(Abs(p[1][1]), p[2][2]), GCD(Abs(p[2][1]), p[1][2])))
RatDiv(a, b) ==
  Once(b, LAMBDA d : IF d[1] > 0 THEN RatMul(a, << d[2], d[1] >>)
                                 ELSE RatMul(a, << 0 - d[2], 0 - d[1] >>))
RatNeg(a) == Once(a, LAMBDA x : << 0 - x[1], x[2] >>)
RatAbs(a) == Once(a, LAMBDA x : << Abs(x[1]), x[2] >>)
RatEq(a, b) == Both(a, b, LAMBDA o : o[1] = o[2])
RatLess(a, b) == Both(a, b, LAMBDA o : o[1] < o[2])
RatLeq(a, b) == Both(a, b, LAMBDA o : o[1] <= o[2])
RatIsZero(a) == a[1] = 0

\* utils.Vector2 and its operators
Vector2(x, y) == [x |-> x, y |-> y]
dot(v, w) == RatAdd(RatMul(v.x, w.x), RatMul(v.y, w.y))
add(v, w) == Vector2(RatAdd(v.x, w.x), RatAdd(v.y, w.y))
sub(v, w) == Vector2(RatSub(v.x, w.x), RatSub(v.y, w.y))
mul(v, scalar) == Vector2(RatMul(v.x, scalar), RatMul(v.y, scalar))
VecEq(v, w) == RatEq(v.x, w.x) /\ RatEq(v.y, w.y)

\* Vector2.length() ** 2: the square of the square root of x ** 2 + y ** 2
length_squared(v) == RatAdd(RatMul(v.x, v.x), RatMul(v.y, v.y))

\* globals.WALL_RESTITUTION_FACTOR = 0.80
WALL_RESTITUTION_FACTOR == << 4, 5 >>

Components(m) == { Rat(i) : i \in (0 - m)..m }
Velocities == { Vector2(x, y) : x \in Components(MaxSpeed), y \in Components(MaxSpeed) }
Positions == { Vector2(x, y) : x \in Components(MaxOffset), y \in Components(MaxOffset) }

\* the normals is_colliding_with_wall passes: top, bottom, left, right
WallNormals ==
  { Vector2(Rat(0), Rat(1)), Vector2(Rat(0), Rat(-1)),
    Vector2(Rat(1), Rat(0)), Vector2(Rat(-1), Rat(0)) }

\* mutant of WallBounce: the restitution factor damps the whole velocity
WallBounce_DampsAll(velocity, normal) ==
  LET velocity_perpendicular == mul(normal, dot(velocity, normal))
      velocity_parallel == sub(velocity, velocity_perpendicular)
  IN mul(add(mul(velocity_perpendicular, Rat(-1)), velocity_parallel),
         WALL_RESTITUTION_FACTOR)

\* Ball.apply_wall_collision: the new velocity
WallBounce(velocity, normal) ==
  LET velocity_perpendicular == mul(normal, dot(velocity, normal))
      velocity_parallel == sub(velocity, velocity_perpendicular)
  IN add(mul(velocity_perpendicular, RatNeg(WALL_RESTITUTION_FACTOR)),
         velocity_parallel)

\* Ball.apply_wall_collision(normal)
apply_wall_collision ==
  /\ calc.op = "wall" /\ ~calc.done
  /\ calc' = [calc EXCEPT !.velocity = WallBounce(calc.velocity, calc.normal),
                          !.done = TRUE]
  /\ UNCHANGED table

WallInit ==
  /\ NewTable
  /\ pc = "input"
  /\ idx = 1
  /\ skipped = {}
  /\ \E v \in Velocities, n \in WallNormals :
       calc = [op |-> "wall", velocity |-> v, normal |-> n, before |-> v,
               done |-> FALSE]

WallSpec == WallInit /\ [][apply_wall_collision]_vars

BallVelocities ==
  { Vector2(x, y) : x \in Components(MaxBallSpeed), y \in Components(MaxBallSpeed) }

\* mutant of BallCollision: the other ball is updated from the new velocity
\* of this ball
BallCollision_Sequential(vAi, vBi, rA, rB) ==
  LET vA == sub(vAi, mul(sub(rA, rB),
                 RatDiv(dot(sub(vAi, vBi), sub(rA, rB)),
                        length_squared(sub(rB, rA)))))
  IN [ self |-> vA,
       other |-> sub(vBi, mul(sub(rB, rA),
                     RatDiv(dot(sub(vBi, vA), sub(rB, rA)),
                            length_squared(sub(rA, rB))))) ]

\* Ball.apply_ball_collision: the new velocities of this ball and the other
BallCollision(vAi, vBi, rA, rB) ==
  [ self |-> sub(vAi, mul(sub(rA, rB),
                 RatDiv(dot(sub(vAi, vBi), sub(rA, rB)),
                        length_squared(sub(rB, rA))))),
    other |-> sub(vBi, mul(sub(rB, rA),
                  RatDiv(dot(sub(vBi, vAi), sub(rB, rA)),
                         length_squared(sub(rA, rB))))) ]

\* Ball.apply_ball_collision(other); the float division raises
\* ZeroDivisionError when the two centres coincide
apply_ball_collision ==
  /\ calc.op = "ball" /\ ~calc.done
  /\ LET rA == calc.position
         rB == calc.other_position
         new == BallCollision(calc.velocity, calc.other_velocity, rA, rB)
     IN IF RatIsZero(length_squared(sub(rB, rA)))
        THEN calc' = [calc EXCEPT !.done = TRUE, !.raised = "ZeroDivisionError"]
        ELSE calc' = [calc EXCEPT !.velocity = new.self,
                                  !.other_velocity = new.other,
                                  !.done = TRUE]
  /\ UNCHANGED table

BallInit ==
  /\ NewTable
  /\ pc = "input"
  /\ idx = 1
  /\ skipped = {}
  /\ \E vA \in BallVelocities, vB \in BallVelocities,
        rA \in Positions, rB \in Positions :
       calc = [op |-> "ball", velocity |-> vA, other_velocity |-> vB,
               position |-> rA, other_position |-> rB,
               before |-> << vA, vB >>, done |-> FALSE, raised |-> None]

BallSpec == BallInit /\ [][apply_ball_collision]_vars

\* ------------------------------------------------------------------ Ray
\* the largest k of lo..hi with k * k <= n, for lo * lo <= n
RECURSIVE Root(_, _, _)
Root(n, lo, hi) ==
  IF lo >= hi THEN lo
  ELSE Once((lo + hi + 1) \div 2,
            LAMBDA mid : IF mid * mid <= n THEN Root(n, mid, hi)
                                           ELSE Root(n, lo, mid - 1))
isqrt(n) == Root(n, 0, IF n < 46340 THEN n ELSE 46340)

\* math.sqrt and ** 0.5 on a number whose root is rational (the inputs below
\* are drawn so that every root that is taken as a value is)
HasRoot(a) ==
  /\ a[1] >= 0
  /\ isqrt(a[1]) * isqrt(a[1]) = a[1]
  /\ isqrt(a[2]) * isqrt(a[2]) = a[2]
sqrt(a) == << isqrt(a[1]), isqrt(a[2]) >>

\* sqrt(s) <= x, for s >= 0
SqrtAtMost(s, x) == RatLeq(Rat(0), x) /\ RatLeq(s, RatMul(x, x))

\* Vector2.length
length(v) == sqrt(length_squared(v))

\* Vector2.normalise
normalise(v) ==
  LET mag == length(v)
  IN IF ~RatIsZero(mag)
     THEN Vector2(RatDiv(v.x, mag), RatDiv(v.y, mag))
     ELSE Vector2(Rat(0), Rat(0))

\* Ray.__init__
Ray(position, direction) ==
  [position |-> position, direction |-> normalise(direction)]

\* the directions a Ray is built with: those of the bound whose length is
\* rational, the zero vector among them
Directions == { d \in Positions : HasRoot(length_squared(d)) }

\* the radius of a circle is one of 1..MaxRadius
MaxRadius == 1

\* the value a cast returns: None, or the intersection point
NoHit == [hit |-> FALSE, point |-> None]
Hit(p) == [hit |-> TRUE, point |-> p]

\* Ray.cast_to_line_segment(start, end)
cast_to_line_segment(ray, start, end) ==
  LET x0 == ray.position.x
      y0 == ray.position.y
      dx == ray.direction.x
      dy == ray.direction.y
      x1 == start.x
      y1 == start.y
      x2 == end.x
      y2 == end.y
      den == RatSub(RatMul(dx, RatSub(y2, y1)), RatMul(dy, RatSub(x2, x1)))
      t == RatDiv(RatSub(RatMul(RatSub(x1, x0), RatSub(y2, y1)),
                         RatMul(RatSub(y1, y0), RatSub(x2, x1))), den)
      u == RatDiv(RatSub(RatMul(RatSub(x1, x0), dy),
                         RatMul(RatSub(y1, y0), dx)), den)
  IN IF RatIsZero(den)
     THEN NoHit                                  \* except ZeroDivisionError
     ELSE IF RatLeq(Rat(0), t) /\ RatLeq(Rat(0), u) /\ RatLeq(u, Rat(1))
          THEN Hit(add(ray.position, mul(ray.direction, t)))
          ELSE NoHit

\* Ray.cast_to_circle(center, radius); the point is left out where the root
\* of the discriminant is irrational
cast_to_circle(ray, center, radius) ==
  LET x0 == ray.position.x
      y0 == ray.position.y
      dx == ray.direction.x
      dy == ray.direction.y
      b == RatAdd(RatMul(RatSub(x0, center.x), dx), RatMul(RatSub(y0, center.y), dy))
      c == RatSub(RatAdd(RatMul(RatSub(x0, center.x), RatSub(x0, center.x)),
                         RatMul(RatSub(y0, center.y), RatSub(y0, center.y))),
                  RatMul(radius, radius))
      disc == RatSub(RatMul(b, b), c)
  IN IF RatLeq(Rat(0), disc) /\ SqrtAtMost(disc, RatNeg(b))    \* t >= 0
     THEN IF HasRoot(disc)
          THEN Hit(add(ray.position, mul(ray.direction, RatSub(RatNeg(b), sqrt(disc)))))
          ELSE Hit("irrational")
     ELSE NoHit

\* one call of a cast method on the ray of calc
cast ==
  /\ calc.op \in { "segment", "circle" } /\ ~calc.done
  /\ calc' = [calc EXCEPT
                !.result = IF calc.op = "segment"
                           THEN cast_to_line_segment(calc.ray, calc.start, calc.end)
                           ELSE cast_to_circle(calc.ray, calc.center, calc.radius),
                !.done = TRUE]
  /\ UNCHANGED table

RayInit ==
  /\ NewTable
  /\ pc = "input"
  /\ idx = 1
  /\ skipped = {}
  /\ \E position \in Positions, direction \in Directions :
       \/ \E start \in Positions, end \in Positions :
            calc = [op |-> "segment", ray |-> Ray(position, direction),
                    given |-> direction, start |-> start, end |-> end,
                    result |-> NoHit, done |-> FALSE]
       \/ \E center \in Positions, radius \in 1..MaxRadius :
            calc = [op |-> "circle", ray |-> Ray(position, direction),
                    given |-> direction, center |-> center, radius |-> Rat(radius),
                    result |-> NoHit, done |-> FALSE]

RaySpec == RayInit /\ [][cast]_vars

\* ---------------------------------------------------------- Ball physics
\* A Ball with its position and velocity: Ball.__init__ sets radius = 10
Ball(x, y, velocity) == [x |-> x, y |-> y, velocity |-> velocity]
radius == Rat(10)
position(b) == Vector2(b.x, b.y)

\* globals.TABLE_FRICTION_FACTOR = 0.990
TABLE_FRICTION_FACTOR == << 99, 100 >>

\* Ball.is_colliding_with_wall: the inward normal of the cushion the call
\* resolves (top, bottom, left, right, the first that is touched), or the
\* zero vector when it returns False
WallTouched(b) ==
  IF RatLeq(RatSub(b.y, radius), Rat(100)) THEN Vector2(Rat(0), Rat(1))
  ELSE IF RatLeq(Rat(600), RatAdd(b.y, radius)) THEN Vector2(Rat(0), Rat(-1))
  ELSE IF RatLeq(RatSub(b.x, radius), Rat(150)) THEN Vector2(Rat(1), Rat(0))
  ELSE IF RatLeq(Rat(450), RatAdd(b.x, radius)) THEN Vector2(Rat(-1), Rat(0))
  ELSE Vector2(Rat(0), Rat(0))

\* Ball.is_colliding_with_wall: the ball after the call
is_colliding_with_wall(b) ==
  IF RatLeq(RatSub(b.y, radius), Rat(100))
  THEN [b EXCEPT !.y = RatAdd(Rat(100), radius),
                 !.velocity = WallBounce(b.velocity, Vector2(Rat(0), Rat(1)))]
  ELSE IF RatLeq(Rat(600), RatAdd(b.y, radius))
  THEN [b EXCEPT !.y = RatSub(Rat(600), radius),
                 !.velocity = WallBounce(b.velocity, Vector2(Rat(0), Rat(-1)))]
  ELSE IF RatLeq(RatSub(b.x, radius), Rat(150))
  THEN [b EXCEPT !.x = RatAdd(Rat(150), radius),
                 !.velocity = WallBounce(b.velocity, Vector2(Rat(1), Rat(0)))]
  ELSE IF RatLeq(Rat(450), RatAdd(b.x, radius))
  THEN [b EXCEPT !.x = RatSub(Rat(450), radius),
                 !.velocity = WallBounce(b.velocity, Vector2(Rat(-1), Rat(0)))]
  ELSE b

\* Ball.apply_friction
apply_friction(b) == [b EXCEPT !.velocity = mul(b.velocity, TABLE_FRICTION_FACTOR)]

\* Ball.update (distance_rolled is read by the drawing code only);
\* velocity.length() <= 0.1 is compared on the squares
Stopped(v) ==
  IF RatLeq(length_squared(v), << 1, 100 >>) THEN Vector2(Rat(0), Rat(0)) ELSE v
Move(b, v) == [b EXCEPT !.velocity = v, !.x = RatAdd(b.x, v.x), !.y = RatAdd(b.y, v.y)]
Ball_update(b) ==
  Once(apply_friction(is_colliding_with_wall(b)),
       LAMBDA rolled : Once(Stopped(rolled.velocity), LAMBDA v : Move(rolled, v)))

\* Ball.is_colliding_with_ball(other): the result, and this ball after the
\* call; distance < 2 * radius is compared on the squares
is_colliding_with_ball(self, other) ==
  LET apart == sub(position(self), position(other))
      distance_between_centers == length(apart)
      is_colliding ==
        RatLess(length_squared(apart), RatMul(RatMul(Rat(2), radius), RatMul(Rat(2), radius)))
      away_from_ball == normalise(apart)
      push == RatAbs(RatSub(radius, RatDiv(distance_between_centers, Rat(2))))
  IN [ is_colliding |-> is_colliding,
       self |-> IF is_colliding
                THEN [self EXCEPT !.x = RatAdd(self.x, RatMul(push, away_from_ball.x)),
                                  !.y = RatAdd(self.y, RatMul(push, away_from_ball.y))]
                ELSE self ]

\* Ball.is_in_pocket: pocket_centers
pocket_centers ==
  [ top_left |-> Vector2(Rat(155), Rat(105)),
    top_right |-> Vector2(Rat(445), Rat(105)),
    center_left |-> Vector2(Rat(150), Rat(350)),
    center_right |-> Vector2(Rat(450), Rat(350)),
    bottom_left |-> Vector2(Rat(155), Rat(595)),
    bottom_right |-> Vector2(Rat(445), Rat(595)) ]

\* Ball.is_in_pocket, for one pocket: distance < radius + 15 and
\* (radius + 15 - distance) ** 2 / (4 * 15 ** 2) >= 0.15, that is
\* 50 * distance <= distance ** 2 + 625 - 135; a ball 25 or more away along
\* one axis is not within distance 25
OverPocket(b, pocket) ==
  LET apart == sub(position(b), pocket_centers[pocket])
      d2 == length_squared(apart)
  IN /\ RatLess(RatAbs(apart.x), Rat(25))
     /\ RatLess(RatAbs(apart.y), Rat(25))
     /\ RatLess(d2, Rat(625))
     /\ SqrtAtMost(RatMul(Rat(2500), d2), RatAdd(d2, Rat(490)))

\* Ball.is_in_pocket: the first pocket of pocket_centers the ball is in, or None
is_in_pocket(b) ==
  LET found == { i \in 1..Len(pocket_names) : OverPocket(b, pocket_names[i]) }
  IN IF found = {} THEN None
     ELSE pocket_names[CHOOSE i \in found : \A j \in found : i <= j]

\* Table.update_balls on a table of two balls, one iteration of
\* `for ball in self.balls` in two steps (the rules bookkeeping of
\* check_collision and check_pockets is that of update_ball above).  tests
\* and responses count the calls of is_colliding_with_ball and
\* apply_ball_collision in the frame.

\* first step: the inner loop, check_collision(ball, other_ball)
check_collision ==
  /\ calc.op = "frame" /\ ~calc.done /\ calc.step = "check"
  /\ IF Len(calc.balls) = 1
     THEN calc' = [calc EXCEPT !.step = "update"]
     ELSE \E ball \in { calc.balls[calc.at] } :
          \E other_ball \in { calc.balls[k] : k \in 1..Len(calc.balls) \ {calc.at} } :
          \E test \in { is_colliding_with_ball(ball, other_ball) } :
            IF ~test.is_colliding
            THEN calc' = [calc EXCEPT !.tests = @ + 1, !.step = "update"]
            ELSE IF RatIsZero(length_squared(sub(position(ball), position(other_ball))))
            THEN calc' = [calc EXCEPT !.tests = @ + 1, !.responses = @ + 1,
                                      !.raised = "ZeroDivisionError", !.done = TRUE]
            ELSE \E new \in { BallCollision(test.self.velocity, other_ball.velocity,
                                            position(test.self), position(other_ball)) } :
                   calc' = [calc EXCEPT
                              !.balls = IF calc.at = 1
                                        THEN << [test.self EXCEPT !.velocity = new.self],
                                                [other_ball EXCEPT !.velocity = new.other] >>
                                        ELSE << [other_ball EXCEPT !.velocity = new.other],
                                                [test.self EXCEPT !.velocity = new.self] >>,
                              !.tests = @ + 1,
                              !.responses = @ + 1,
                              !.step = "update"]
  /\ UNCHANGED table

\* second step: ball.update() and check_pockets(ball), then the loop moves on
update_and_check_pockets ==
  /\ calc.op = "frame" /\ ~calc.done /\ calc.step = "update"
  /\ \E updated \in { Ball_update(calc.balls[calc.at]) } :
     \E list \in { [calc.balls EXCEPT ![calc.at] = updated] } :
     \E kept \in { IF is_in_pocket(updated) # None
                   THEN SelectSeq(list, LAMBDA b : b # updated)
                   ELSE list } :
       calc' = [calc EXCEPT !.balls = kept,
                            !.at = @ + 1,
                            !.step = "check",
                            !.done = calc.at + 1 > Len(kept)]
  /\ UNCHANGED table

update_balls_iteration == check_collision \/ update_and_check_pockets

\* the balls of a frame lie on the line y = 350 around the table's centre,
\* 2 * radius - 1 apart, and roll along that line
FrameXs == { Rat(300 + 19 * i) : i \in (0 - MaxOffset)..MaxOffset }
FrameVelocities == { Vector2(vx, Rat(0)) : vx \in Components(MaxBallSpeed) }

FrameInit ==
  /\ NewTable
  /\ pc = "input"
  /\ idx = 1
  /\ skipped = {}
  /\ \E x1 \in FrameXs, x2 \in FrameXs, v1 \in FrameVelocities, v2 \in FrameVelocities :
       calc = [op |-> "frame",
               balls |-> << Ball(x1, Rat(350), v1), Ball(x2, Rat(350), v2) >>,
               before |-> << Ball(x1, Rat(350), v1), Ball(x2, Rat(350), v2) >>,
               at |-> 1, step |-> "check", tests |-> 0, responses |-> 0,
               raised |-> None, done |-> FALSE]

FrameSpec == FrameInit /\ [][update_balls_iteration]_vars

\* ball.update() on one ball; contact and bounced keep the cushion that
\* is_colliding_with_wall resolved and the velocity it left
update ==
  /\ calc.op = "tick" /\ ~calc.done
  /\ calc' = [calc EXCEPT !.ball = Ball_update(calc.ball),
                          !.contact = WallTouched(calc.ball),
                          !.bounced = is_colliding_with_wall(calc.ball).velocity,
                          !.done = TRUE]
  /\ UNCHANGED table

\* the ball of a tick is on a cushion line (centre 10 from the cushion),
\* within MaxOffset of it on either side, or in the middle of the table
TickXs ==
  { Rat(160 + i) : i \in (0 - MaxOffset)..MaxOffset } \cup { Rat(300) }
    \cup { Rat(440 + i) : i \in (0 - MaxOffset)..MaxOffset }
TickYs ==
  { Rat(110 + i) : i \in (0 - MaxOffset)..MaxOffset } \cup { Rat(350) }
    \cup { Rat(590 + i) : i \in (0 - MaxOffset)..MaxOffset }

TickInit ==
  /\ NewTable
  /\ pc = "input"
  /\ idx = 1
  /\ skipped = {}
  /\ \E x \in TickXs, y \in TickYs, v \in Velocities :
       calc = [op |-> "tick", ball |-> Ball(x, y, v), before |-> Ball(x, y, v),
               contact |-> Vector2(Rat(0), Rat(0)), bounced |-> v, done |-> FALSE]

TickSpec == TickInit /\ [][update]_vars

\* ------------------------------------------------------------- claims
Settled == settled.kind = "settled"

\* the balls that were out of play when the settlement started
PocketedBefore == (RackIds \cup {CueId}) \ { settled.balls[i] : i \in 1..Len(settled.balls) }

\* the shots the settlement grants to the player that takes over
SettledGrant ==
  IF settled.remaining[change_player(settled.player)] = 0 THEN 1 ELSE 2

\* C1: a settlement with the black ball pocketed applies none of the lower
\* outcomes: current_player and shots_left keep the values they had when the
\* settlement started and no cue ball is respawned.
C1_BlackStopsSettlement ==
  (Settled /\ settled.black) =>
    /\ current_player = settled.player
    /\ shots_left = settled.shots
    /\ balls = settled.balls

\* C2: a settlement with the black ball pocketed ends the game; the winner is
\* the opponent of the current player if the cue ball was pocketed too or the
\* current player has a remaining ball, and the current player otherwise.
C2_BlackBallWinner ==
  (Settled /\ settled.black) =>
    /\ is_game_over
    /\ winner = IF settled.white \/ settled.remaining[settled.player] > 0
                THEN change_player(settled.player)
                ELSE settled.player

C2_Witness ==
  /\ Settled /\ settled.black /\ ~settled.white
  /\ settled.remaining[settled.player] = 0
  /\ is_game_over /\ winner = settled.player

\* Scenario A: the first shot on a fresh table has settled, the first ball
\* the cue ball struck was a Solid and one Solid ball is all that was pocketed
ScenarioA ==
  /\ Settled /\ settled.phase = "first"
  /\ settled.player = 1
  /\ settled.first_hit = "Solid"
  /\ Cardinality(PocketedBefore) = 1
  /\ \A b \in PocketedBefore : ball_type(b) = "Solid"

\* C3 as stated: after scenario A the shooter is Solid, the opponent Stripe,
\* shots_left is 2 and the shooter is still the current player.
C3_ScenarioA_TwoShots ==
  ScenarioA =>
    /\ player1_ball_type = "Solid" /\ player2_ball_type = "Stripe"
    /\ shots_left = 2
    /\ current_player = 1

\* C3 amended: after scenario A the shooter is Solid, the opponent Stripe,
\* shots_left is 1 and the shooter is still the current player.
C3_ScenarioA_OneShot ==
  ScenarioA =>
    /\ player1_ball_type = "Solid" /\ player2_ball_type = "Stripe"
    /\ shots_left = 1
    /\ current_player = 1

C3_Witness == ScenarioA /\ shots_left = 1 /\ player1_ball_type = "Solid"

\* C4: a settlement with the cue ball pocketed and the black ball not puts a
\* cue ball in play at the head position (300, 500), switches the player,
\* grants 2 shots if the new player has remaining balls and 1 otherwise, and
\* leaves was_white_ball_pocketed false.
C4_CueBallPocketed ==
  (Settled /\ settled.white /\ ~settled.black) =>
    /\ cue_ball \in InPlay
    /\ cue_pos = << 300, 500 >>
    /\ current_player = change_player(settled.player)
    /\ shots_left = SettledGrant
    /\ ~was_white_ball_pocketed

C4_Witness ==
  /\ Settled /\ settled.white /\ ~settled.black
  /\ cue_ball \in InPlay
  /\ current_player = 2
  /\ shots_left = 1

\* C5: a settlement with neither the black nor the cue ball pocketed, after a
\* turn in which no ball was struck or with was_wrong_ball_hit or
\* was_wrong_ball_pocketed set, switches the player and grants 2 shots if the
\* new player has remaining balls and 1 otherwise, whatever shots were left.
C5_Foul ==
  ( /\ Settled /\ ~settled.black /\ ~settled.white
    /\ (~settled.hit \/ settled.wrong_hit \/ settled.wrong_pocketed) ) =>
    /\ current_player = change_player(settled.player)
    /\ shots_left = SettledGrant

C5_Witness ==
  /\ Settled /\ ~settled.black /\ ~settled.white
  /\ settled.hit /\ settled.wrong_pocketed
  /\ settled.shots >= 2
  /\ current_player = change_player(settled.player)
  /\ shots_left = 1

\* C6: a settlement with no black ball pocketed, no cue ball pocketed and no
\* foul flag switches the player iff shots_left is 0, and the new player then
\* has exactly 1 shot; otherwise current_player and shots_left are unchanged.
C6_NoFoul ==
  ( /\ Settled /\ ~settled.black /\ ~settled.white
    /\ settled.hit /\ ~settled.wrong_hit /\ ~settled.wrong_pocketed ) =>
    IF settled.shots = 0
    THEN current_player = change_player(settled.player) /\ shots_left = 1
    ELSE current_player = settled.player /\ shots_left = settled.shots

C6_Witness ==
  /\ Settled /\ ~settled.black /\ ~settled.white
  /\ settled.hit /\ ~settled.wrong_hit /\ ~settled.wrong_pocketed
  /\ settled.shots = 1
  /\ current_player = settled.player /\ shots_left = 1

\* C7: the settlement of a shot is evaluated at most once between two calls
\* of shoot(), only when no ball in play moves, and at the first call of
\* process_game_rules at which no ball in play moves.
C7_SettledOncePerShot ==
  /\ evaluations <= 1
  /\ is_turn_in_play => evaluations = 0
  /\ Settled => settled.in_play /\ ~settled.moving /\ ~is_turn_in_play
  /\ (pc = "update" /\ idx = 1 /\ is_turn_in_play /\ ~is_game_over)
       => are_balls_moving

C7_Witness ==
  /\ Settled /\ evaluations = 1 /\ cue_pos = Elsewhere
  /\ ~is_turn_in_play

TypeOf(p) == IF p = 1 THEN player1_ball_type ELSE player2_ball_type

\* an iteration of update_balls records the first contact with the cue ball
FirstContactStep ==
  /\ pc = "update" /\ exception = None
  /\ ~has_ball_been_hit_this_turn
  /\ has_ball_been_hit_this_turn'

C9_TypesSolidAndStripe ==
  \/ player1_ball_type = None /\ player2_ball_type = None
  \/ player1_ball_type = "Solid" /\ player2_ball_type = "Stripe"
  \/ player1_ball_type = "Stripe" /\ player2_ball_type = "Solid"

Captured == UNION { BagToSet(pockets[p]) : p \in PocketNames }

\* C10: once player1_ball_type or player2_ball_type is set, no step of the
\* same game changes it.
C10_TypesImmutable ==
  [][ \/ Restart
      \/ /\ player1_ball_type # None => player1_ball_type' = player1_ball_type
         /\ player2_ball_type # None => player2_ball_type' = player2_ball_type
    ]_vars

C10_Witness ==
  /\ player1_ball_type = "Solid" /\ player2_ball_type = "Stripe"
  /\ current_player = 2
  /\ \E b \in Captured : ball_type(b) = "Stripe"
  /\ \E b \in Captured : ball_type(b) = "Solid"

\* C11: from the first rack() and reset_cue_ball() on, the balls in play
\* contain exactly one cue ball in every reachable state, also in the frames
\* between the pocketing of the cue ball and the settlement of the turn.
C11_ExactlyOneCueBall == CueBalls = 1

\* an iteration of update_balls in which the ball at the loop position drops
\* into a pocket
PocketingStep ==
  /\ pc = "update" /\ exception = None
  /\ idx <= Len(balls)
  /\ Len(balls') < Len(balls)

\* C12: a pocketed cue ball leaves play, sets was_white_ball_pocketed, joins
\* no pocket list and leaves shots_left unchanged; a pocketed object ball
\* leaves play, is appended to exactly one pocket list and adds exactly 1 to
\* shots_left.
C12_PocketingBookkeeping ==
  [][ PocketingStep =>
        LET b == balls[idx]
        IN /\ \A i \in 1..Len(balls') : balls'[i] # b
           /\ IF b = cue_ball
              THEN /\ was_white_ball_pocketed'
                   /\ pockets' = pockets
                   /\ shots_left' = shots_left
              ELSE /\ \E p \in PocketNames :
                        /\ pockets'[p] = pockets[p] (+) SetToBag({b})
                        /\ \A q \in PocketNames \ {p} : pockets'[q] = pockets[q]
                   /\ shots_left' = shots_left + 1 ]_vars

\* C13: whenever an iteration of update_balls resolves a collision between
\* the cue ball and another ball during a turn, has_ball_been_hit_this_turn
\* is true afterwards, whichever of the two balls the iteration belongs to.
C13_CueContactRecorded ==
  [][ \A o \in InPlay, stop \in BOOLEAN, pocket \in PocketInputs \cup {None} :
        ( /\ is_turn_in_play
          /\ update_ball(o, stop, pocket)
          /\ (balls[idx] = cue_ball \/ o = cue_ball) )
        => has_ball_been_hit_this_turn' ]_vars

\* C14: no operation of steady-state play raises an exception: every frame
\* and every settlement completes normally, whatever ball is pocketed and
\* whatever the type-assignment state.
C14_NoException == exception = None

\* C16: immediately after every turn settlement the five per-turn flags are
\* all false, whichever branch the settlement took, the game-over branch
\* included.
C16_FlagsCleared ==
  Settled =>
    /\ ~has_ball_been_hit_this_turn
    /\ ~was_white_ball_pocketed
    /\ ~was_wrong_ball_hit
    /\ ~was_wrong_ball_pocketed
    /\ ~was_black_ball_pocketed

C16_Witness ==
  /\ Settled /\ settled.black /\ settled.hit /\ settled.wrong_pocketed
  /\ is_game_over
  /\ ~has_ball_been_hit_this_turn /\ ~was_black_ball_pocketed
  /\ ~was_wrong_ball_pocketed

\* the number of times ball b occurs in the pocket capture lists
TimesCaptured(b) ==
  CopiesIn(b, pockets["top_left"]) + CopiesIn(b, pockets["top_right"])
  + CopiesIn(b, pockets["center_left"]) + CopiesIn(b, pockets["center_right"])
  + CopiesIn(b, pockets["bottom_left"]) + CopiesIn(b, pockets["bottom_right"])

TimesInPlay(b) == Cardinality({ i \in 1..Len(balls) : balls[i] = b })

\* C18: within one game the pocket capture lists only grow, a captured ball
\* never returns to play, the cue ball is in no pocket list, and every object
\* ball of the rack is in exactly one place: in play, or in exactly one
\* pocket list.
C18_PocketsAppendOnly ==
  /\ []( /\ TimesCaptured(CueId) = 0
         /\ \A b \in RackIds : TimesInPlay(b) + TimesCaptured(b) = 1 )
  /\ [][ \/ Restart
         \/ /\ \A p \in PocketNames : pockets[p] \sqsubseteq pockets'[p]
            /\ \A b \in Captured : \A i \in 1..Len(balls') : balls'[i] # b ]_vars

C18_Witness ==
  /\ \E b \in RackIds : TimesCaptured(b) = 1 /\ ball_type(b) = "Black"
  /\ \E b \in RackIds : TimesCaptured(b) = 1 /\ ball_type(b) = "Solid"
  /\ \E b \in RackIds : TimesInPlay(b) = 1
  /\ was_white_ball_pocketed /\ TimesInPlay(CueId) = 0

\* C15: shoot() on a table whose cue_ball is None signals an error and
\* leaves shots_left and is_turn_in_play unchanged.
C15_ShootFailsFast ==
  [][ (cue_ball = NoBall /\ \E strong \in BOOLEAN : ApiShoot(strong)) =>
        /\ exception' # None
        /\ shots_left' = shots_left
        /\ is_turn_in_play' = is_turn_in_play ]_vars

\* C17: after rack() the balls in play are the object balls of the rack
\* order, each once, and exactly one cue ball, on a new table and on a table
\* that already has a cue ball.
C17_RackedBalls ==
  [][ ApiRack =>
        /\ \A b \in RackIds :
             Cardinality({ i \in 1..Len(balls') : balls'[i] = b }) = 1
        /\ Cardinality({ i \in 1..Len(balls') : ball_type(balls'[i]) = "Cue" }) = 1
        /\ Len(balls') = Cardinality(RackIds) + 1 ]_vars

\* the component of v along the unit normal n, and the rest of v
Along(v, n) == dot(v, n)
Across(v, n) == sub(v, mul(n, dot(v, n)))

\* C19: for every velocity v and each of the four axis-aligned unit normals
\* n, apply_wall_collision leaves a velocity r with r.n = -0.8 * (v.n) and
\* with the component parallel to the wall unchanged.
C19_WallCollision ==
  (calc.op = "wall" /\ calc.done) =>
    /\ RatEq(Along(calc.velocity, calc.normal),
             RatMul(RatNeg(<< 4, 5 >>), Along(calc.before, calc.normal)))
    /\ VecEq(Across(calc.velocity, calc.normal), Across(calc.before, calc.normal))

C19_Witness ==
  /\ calc.op = "wall" /\ calc.done
  /\ calc.before = Vector2(Rat(2), Rat(-1))
  /\ calc.normal = Vector2(Rat(0), Rat(1))
  /\ VecEq(calc.velocity, Vector2(Rat(2), << 4, 5 >>))

\* C20: for two balls with distinct centres apply_ball_collision leaves the
\* sum of the two velocities unchanged, and both balls are updated from the
\* velocities they had before the call: the call with the two balls in the
\* other roles leaves the same two velocities.
C20_MomentumConserved ==
  (calc.op = "ball" /\ calc.done /\ calc.position # calc.other_position) =>
    /\ calc.raised = None
    /\ VecEq(add(calc.velocity, calc.other_velocity),
             add(calc.before[1], calc.before[2]))
    /\ LET swapped == BallCollision(calc.before[2], calc.before[1],
                                    calc.other_position, calc.position)
       IN /\ VecEq(calc.velocity, swapped.other)
          /\ VecEq(calc.other_velocity, swapped.self)

C20_Witness ==
  /\ calc.op = "ball" /\ calc.done /\ calc.raised = None
  /\ calc.before = << Vector2(Rat(1), Rat(1)), Vector2(Rat(-1), Rat(0)) >>
  /\ calc.position = Vector2(Rat(-1), Rat(-1))
  /\ calc.other_position = Vector2(Rat(1), Rat(0))
  /\ ~VecEq(calc.velocity, calc.before[1])
  /\ ~VecEq(calc.other_velocity, calc.before[2])

\* C21: a Ray built with a zero-length direction reports no hit from
\* cast_to_line_segment, for every segment, and from cast_to_circle, for every
\* circle, a circle through the ray's origin included.
C21_ZeroDirectionNoHit ==
  (calc.op \in { "segment", "circle" } /\ calc.done
     /\ RatIsZero(length_squared(calc.given))) =>
    ~calc.result.hit

\* C22: in each frame every ball that is in play at the start of update_balls
\* has Ball.update and check_pockets run exactly once, also in a frame in
\* which a ball is pocketed: when the loop ends, no ball has been passed over.
C22_EveryBallUpdated ==
  [][ EndFrame => skipped = {} ]_vars

\* C23: in one frame each unordered pair of balls in play is tested for
\* collision once, and the collision response is applied at most once per
\* pair.
C23_PairTestedOnce ==
  (calc.op = "frame" /\ calc.done /\ calc.raised = None /\ Len(calc.balls) = 2) =>
    /\ calc.tests = 1
    /\ calc.responses <= 1

\* C24: every shot is eventually settled: after shoot(), under the frame loop,
\* the balls come to rest, the settlement is evaluated and the turn is no
\* longer in progress (or the table has been replaced by a new one).
C24_ShotEventuallySettled ==
  is_turn_in_play ~> ((Settled /\ ~is_turn_in_play) \/ phase = "fresh")

\* the number of balls of type t in play
InPlayOfType(t) == Cardinality({ i \in 1..Len(balls) : ball_type(balls[i]) = t })

\* C25: once the players' types are assigned, the length of each player's
\* remaining-balls list equals the number of balls of that player's type in
\* play; before the assignment both lists have all the entries of
\* BALL_COLOURS.
C25_RemainingMatchesInPlay ==
  IF TypesAssigned
  THEN /\ Len(player1_balls) = InPlayOfType(player1_ball_type)
       /\ Len(player2_balls) = InPlayOfType(player2_ball_type)
  ELSE /\ Len(player1_balls) = Len(BALL_COLOURS)
       /\ Len(player2_balls) = Len(BALL_COLOURS)

\* C26: after the wall-collision check of a tick has resolved a contact with
\* a cushion, the ball's velocity component along that cushion's inward
\* normal is non-negative, whatever the velocity at the moment of contact.
C26_NeverIntoCushion ==
  (calc.op = "tick" /\ calc.done /\ ~RatIsZero(length_squared(calc.contact))) =>
    /\ RatLeq(Rat(0), dot(calc.bounced, calc.contact))
    /\ RatLeq(Rat(0), dot(calc.ball.velocity, calc.contact))

====
